---- MODULE Spec2Model ----
(***************************************************************************)
(* Model of src/wsg_command_message.h: the CRC-16 routine                  *)
(* checksum_update_crc16 with its lookup table CRC_TABLE, and the frame    *)
(* encoder WsgCommandMessage (constructor and Serialize).                  *)
(*                                                                         *)
(* Bytes are naturals in 0..255, a uint16_t is a natural in 0..65535, a    *)
(* std::vector<unsigned char> or a C array is a sequence of bytes (the C   *)
(* index i is the TLA+ index i + 1).                                       *)
(***************************************************************************)
EXTENDS Integers, Sequences, FiniteSets, TLC

VARIABLES
  command_,   \* WsgCommandMessage::command_ (const int)
  payload_,   \* WsgCommandMessage::payload_ (std::vector<unsigned char>)
  ctor,       \* how the constructor call ended: "ok" or the exception thrown
  args,       \* the constructor's arguments as they were at the call
  buffer,     \* the caller's std::vector<unsigned char> handed to Serialize
  buffer_in,  \* buffer as it was when the latest Serialize call started
  last_out,   \* buffer as the latest Serialize call left it
  n_calls,    \* number of Serialize calls made on the instance
  fresh,      \* buffer still holds what the latest Serialize call wrote
  crc_data,   \* checksum_update_crc16, called on its own: the array,
  crc_size,   \*   the size argument,
  crc_ret,    \*   the value returned,
  crc_done    \*   and whether the call has returned

vars == <<command_, payload_, ctor, args, buffer, buffer_in, last_out,
          n_calls, fresh, crc_data, crc_size, crc_ret, crc_done>>

encoderVars == <<command_, payload_, ctor, args, buffer, buffer_in, last_out,
                 n_calls, fresh>>

crcVars == <<crc_data, crc_size, crc_ret, crc_done>>

(***************************************************************************)
(* Bounds of the model.                                                    *)
(***************************************************************************)
\* Longest caller array enumerated exhaustively as a constructor argument.
MaxSmallLen == 2
\* Serialize calls made on one instance.
MaxCalls == 2
\* Longest array enumerated exhaustively for a direct checksum call.
MaxCrcLen == 2

(***************************************************************************)
(* Integer conversions and bit operations of the C++ expressions.          *)
(***************************************************************************)
\* Conversion of an int result to unsigned char (assignment to buffer[i]).
ToUChar(x) == x % 256

\* Conversion of an int result to uint16_t (assignment to crc).
ToUInt16(x) == x % 65536

\* x & 0xFF on a two's complement integer: the low eight bits, also for a
\* negative x (TLA+'s % is the non-negative remainder: -1 % 256 = 255).
AndFF(x) == x % 256

\* a ^ b on one hexadecimal digit each.
NibbleXor ==
  [a \in 0..15 |-> [b \in 0..15 |->
      ((a + b) % 2)
    + 2 * (((a \div 2) + (b \div 2)) % 2)
    + 4 * (((a \div 4) + (b \div 4)) % 2)
    + 8 * (((a \div 8) + (b \div 8)) % 2)]]

\* a ^ b on one byte each.
ByteXor ==
  [a \in 0..255 |-> [b \in 0..255 |->
      NibbleXor[a % 16][b % 16] + 16 * NibbleXor[a \div 16][b \div 16]]]

\* a ^ b on non-negative ints (both operands of the source's ^ are unsigned
\* values promoted to int).
RECURSIVE XOR(_, _)
XOR(a, b) ==
  IF a = 0 THEN b
  ELSE IF b = 0 THEN a
  ELSE ByteXor[a % 256][b % 256] + 256 * XOR(a \div 256, b \div 256)

\* crc >> 8 on a uint16_t promoted to int.
ShiftRight8(x) == x \div 256

(***************************************************************************)
(* The checksum.                                                           *)
(***************************************************************************)
\* const uint16_t CRC_TABLE[256], entry for entry.
CRC_TABLE_DATA == <<
  \h0000, \h1021, \h2042, \h3063, \h4084, \h50a5, \h60c6, \h70e7,
  \h8108, \h9129, \ha14a, \hb16b, \hc18c, \hd1ad, \he1ce, \hf1ef,
  \h1231, \h0210, \h3273, \h2252, \h52b5, \h4294, \h72f7, \h62d6,
  \h9339, \h8318, \hb37b, \ha35a, \hd3bd, \hc39c, \hf3ff, \he3de,
  \h2462, \h3443, \h0420, \h1401, \h64e6, \h74c7, \h44a4, \h5485,
  \ha56a, \hb54b, \h8528, \h9509, \he5ee, \hf5cf, \hc5ac, \hd58d,
  \h3653, \h2672, \h1611, \h0630, \h76d7, \h66f6, \h5695, \h46b4,
  \hb75b, \ha77a, \h9719, \h8738, \hf7df, \he7fe, \hd79d, \hc7bc,
  \h48c4, \h58e5, \h6886, \h78a7, \h0840, \h1861, \h2802, \h3823,
  \hc9cc, \hd9ed, \he98e, \hf9af, \h8948, \h9969, \ha90a, \hb92b,
  \h5af5, \h4ad4, \h7ab7, \h6a96, \h1a71, \h0a50, \h3a33, \h2a12,
  \hdbfd, \hcbdc, \hfbbf, \heb9e, \h9b79, \h8b58, \hbb3b, \hab1a,
  \h6ca6, \h7c87, \h4ce4, \h5cc5, \h2c22, \h3c03, \h0c60, \h1c41,
  \hedae, \hfd8f, \hcdec, \hddcd, \had2a, \hbd0b, \h8d68, \h9d49,
  \h7e97, \h6eb6, \h5ed5, \h4ef4, \h3e13, \h2e32, \h1e51, \h0e70,
  \hff9f, \hefbe, \hdfdd, \hcffc, \hbf1b, \haf3a, \h9f59, \h8f78,
  \h9188, \h81a9, \hb1ca, \ha1eb, \hd10c, \hc12d, \hf14e, \he16f,
  \h1080, \h00a1, \h30c2, \h20e3, \h5004, \h4025, \h7046, \h6067,
  \h83b9, \h9398, \ha3fb, \hb3da, \hc33d, \hd31c, \he37f, \hf35e,
  \h02b1, \h1290, \h22f3, \h32d2, \h4235, \h5214, \h6277, \h7256,
  \hb5ea, \ha5cb, \h95a8, \h8589, \hf56e, \he54f, \hd52c, \hc50d,
  \h34e2, \h24c3, \h14a0, \h0481, \h7466, \h6447, \h5424, \h4405,
  \ha7db, \hb7fa, \h8799, \h97b8, \he75f, \hf77e, \hc71d, \hd73c,
  \h26d3, \h36f2, \h0691, \h16b0, \h6657, \h7676, \h4615, \h5634,
  \hd94c, \hc96d, \hf90e, \he92f, \h99c8, \h89e9, \hb98a, \ha9ab,
  \h5844, \h4865, \h7806, \h6827, \h18c0, \h08e1, \h3882, \h28a3,
  \hcb7d, \hdb5c, \heb3f, \hfb1e, \h8bf9, \h9bd8, \habbb, \hbb9a,
  \h4a75, \h5a54, \h6a37, \h7a16, \h0af1, \h1ad0, \h2ab3, \h3a92,
  \hfd2e, \hed0f, \hdd6c, \hcd4d, \hbdaa, \had8b, \h9de8, \h8dc9,
  \h7c26, \h6c07, \h5c64, \h4c45, \h3ca2, \h2c83, \h1ce0, \h0cc1,
  \hef1f, \hff3e, \hcf5d, \hdf7c, \haf9b, \hbfba, \h8fd9, \h9ff8,
  \h6e17, \h7e36, \h4e55, \h5e74, \h2e93, \h3eb2, \h0ed1, \h1ef0
>>

\* The table with one entry mistyped (0x1021 copied as 0x1012).
CRC_TABLE_typo == [CRC_TABLE_DATA EXCEPT ![2] = \h1012]

CRC_TABLE == CRC_TABLE_DATA

\* One iteration of the loop body:
\*   crc = CRC_TABLE[ ( crc ^ *( data ++ )) & 0x00FF ] ^ ( crc >> 8 );
CrcStep(crc, byte) ==
  ToUInt16(XOR(CRC_TABLE[AndFF(XOR(crc, byte)) + 1], ShiftRight8(crc)))

\* F applied to the value of v, with v evaluated once, before F: the value
\* a C++ local variable holds.
Then(v, F(_)) == CHOOSE w \in {F(r) : r \in {v}} : TRUE

\* The loop iterations c = lo .. hi - 1, in that order, started with
\* accumulator crc: the iterations lo .. mid - 1 and then, from the value
\* they leave, the iterations mid .. hi - 1.  (The split only keeps the
\* evaluation depth logarithmic in the size; the bytes are consumed in the
\* loop's order.)
RECURSIVE CrcLoop(_, _, _, _)
CrcLoop(crc, data, lo, hi) ==
  IF lo >= hi THEN crc
  ELSE IF hi = lo + 1 THEN CrcStep(crc, data[lo + 1])
  ELSE LET mid == (lo + hi) \div 2
       IN  Then(CrcLoop(crc, data, lo, mid), LAMBDA r : CrcLoop(r, data, mid, hi))

\* The initial accumulator, uint16_t crc = 0xFFFF, forgotten (crc = 0).
CrcInit_zero == \h0000

CrcInit == \hFFFF

\* uint16_t checksum_update_crc16(unsigned char *data, int size)
checksum_update_crc16(data, size) == CrcLoop(CrcInit, data, 0, size)

(***************************************************************************)
(* WsgCommandMessage.                                                      *)
(***************************************************************************)
\* A vector's elements as stored: the sequence itself.
Stored(v) == SubSeq(v, 1, Len(v))

\* resize that only ever grows the vector (a longer vector is left as it is).
Resize_growOnly(v, n) == IF Len(v) >= n THEN v ELSE [i \in 1..n |-> IF i <= Len(v) THEN v[i] ELSE 0]

\* std::vector<unsigned char>::resize(n): the first n elements are kept, new
\* elements are value-initialized (0).
Resize(v, n) == [i \in 1..n |-> IF i <= Len(v) THEN v[i] ELSE 0]

\* memcpy that stops one byte short.
Memcpy_oneShort(dst, off, src, n) ==
  [i \in 1..Len(dst) |-> IF i > off /\ i < off + n THEN src[i - off] ELSE dst[i]]

\* memcpy(dst.data() + off, src, n): n bytes of src at offset off of dst.
Memcpy(dst, off, src, n) ==
  [i \in 1..Len(dst) |-> IF i > off /\ i <= off + n THEN src[i - off] ELSE dst[i]]

\* WsgCommandMessage(int command, unsigned char* payload, int size).
\* size is converted to size_t for resize: a negative size becomes a count
\* above max_size() and resize throws std::length_error.  No other check is
\* made on command or size.
WsgCommandMessage(command, payload, size) ==
  IF size < 0
    THEN [status |-> "length_error", command_ |-> command, payload_ |-> <<>>]
    ELSE [status |-> "ok",
          command_ |-> command,
          payload_ |-> Stored(Memcpy(Resize(<<>>, size), 0, payload, size))]

\* buffer.resize(payload_.size() + 8): the size of the frame.
FrameSize(n) == n + 8

\* buffer[3] = command_ & 0xff;
CommandByte(command) == ToUChar(AndFF(command))

\* The length's low byte masked with 0x7F.
LengthLow_7bit(n) == n % 128

\* buffer[4] = payload_.size() & 0xFF;
LengthLow(n) == ToUChar(AndFF(n))

\* buffer[5] = (payload_.size() << 8) & 0xFF;
\* The shift is on a size_t; the low eight bits of n << 8 are those of
\* n * 256 whatever the width of size_t.
LengthHigh(n) == ToUChar(AndFF(n * 256))

\* The checksum written high byte first.
CrcLowByte_high(crc) == (crc \div 256) % 256

\* buffer[payload_.size() + 6] = crc & 0xFF;
CrcLowByte(crc) == ToUChar(AndFF(crc))

\* buffer[payload_.size() + 7] = (crc >> 8) & 0xFF;
CrcHighByte(crc) == ToUChar(AndFF(ShiftRight8(crc)))

\* The header written without buffer[5], which keeps what the vector held.
WriteHeader_skipHigh(b, command, n) ==
  [b EXCEPT ![1] = \haa, ![2] = \haa, ![3] = \haa,
            ![4] = CommandByte(command),
            ![5] = LengthLow(n)]

\* buffer[0] .. buffer[5]: the preamble, the command and the length field.
WriteHeader(b, command, n) ==
  [b EXCEPT ![1] = \haa, ![2] = \haa, ![3] = \haa,
            ![4] = CommandByte(command),
            ![5] = LengthLow(n),
            ![6] = LengthHigh(n)]

\* buffer[n + 6], buffer[n + 7]: the checksum, from uint16_t crc.
WriteChecksum(b, n, crc) ==
  [b EXCEPT ![n + 7] = CrcLowByte(crc), ![n + 8] = CrcHighByte(crc)]

\* The body of Serialize: the contents of buffer when the call returns.
SerializeInto(command, payload, buf) ==
  LET n == Len(payload)
  IN  Then(Stored(Resize(buf, FrameSize(n))), LAMBDA b0 :
      Then(WriteHeader(b0, command, n), LAMBDA b1 :
      Then(Stored(Memcpy(b1, 6, payload, n)), LAMBDA b2 :
      Then(checksum_update_crc16(b2, n + 6), LAMBDA crc :
      WriteChecksum(b2, n, crc)))))

(***************************************************************************)
(* Inputs.                                                                 *)
(***************************************************************************)
\* Byte values used to fill the exhaustively enumerated arrays.
ByteVals == {\h00, \haa, \hff}

\* All arrays over ByteVals of length 0..n.
SeqsUpTo(n) == UNION {[1..k -> ByteVals] : k \in 0..n}

\* An array of n bytes with varied contents.
Pattern(n) == [i \in 1..n |-> (7 * i + 3) % 256]

\* Command arguments: three codes of the enum Command, the largest code that
\* fits a byte, and two ints outside 0..255.
Commands == {\h21, \h25, \h51, \hff, \h125, -1}

\* Constructor arguments <<command, payload, size>>.  The array is at least
\* size bytes long (memcpy reads size bytes of it).
SmallInputs ==
  {<<c, d, s>> : c \in Commands, d \in SeqsUpTo(MaxSmallLen), s \in 0..MaxSmallLen}

\* Arrays around the lengths at which the two-byte length field changes:
\* the last length with a zero high byte, the first with a non-zero one,
\* an array longer than the size passed with it, and the first length that
\* sixteen bits do not hold.
Array255 == Stored(Pattern(255))
Array256 == Stored(Pattern(256))
Array300 == Stored(Pattern(300))
Array65536 == Stored(Pattern(65536))

Inputs ==
     {in \in SmallInputs : in[3] <= Len(in[2])}
  \cup {<<\h21, <<1, 2, 3, 4, 5, 6, 7, 8>>, 8>>,
        <<\h25, <<>>, -1>>,
        <<\h51, Array255, 255>>,
        <<\h51, Array256, 256>>,
        <<\h51, Array300, 258>>,
        <<\h51, Array65536, 65536>>}

\* What the caller's vector may hold before a Serialize call: nothing, or
\* leftovers longer than a short frame.
PriorBuffers == {<<>>, [i \in 1..20 |-> \h5a]}

(***************************************************************************)
(* The encoder: construction, then Serialize calls on a caller's buffer.   *)
(***************************************************************************)
CrcIdle ==
  /\ crc_data = <<>>
  /\ crc_size = 0
  /\ crc_ret = 0
  /\ crc_done = FALSE

Init ==
  /\ \E in \in Inputs :
       LET m == WsgCommandMessage(in[1], in[2], in[3])
       IN  /\ args = [command |-> in[1], payload |-> in[2], size |-> in[3]]
           /\ ctor = m.status
           /\ command_ = m.command_
           /\ payload_ = m.payload_
  /\ buffer \in PriorBuffers
  /\ buffer_in = <<>>
  /\ last_out = <<>>
  /\ n_calls = 0
  /\ fresh = FALSE
  /\ CrcIdle

\* void Serialize(std::vector<unsigned char>& buffer) const
Serialize ==
  /\ ctor = "ok"
  /\ n_calls < MaxCalls
  /\ buffer_in' = buffer
  /\ buffer' = SerializeInto(command_, payload_, buffer)
  /\ last_out' = buffer'
  /\ n_calls' = n_calls + 1
  /\ fresh' = TRUE
  /\ UNCHANGED <<command_, payload_, ctor, args>>
  /\ UNCHANGED crcVars

\* Between calls the caller does what it likes with its own vector.
CallerReusesBuffer ==
  /\ \E b \in PriorBuffers : b # buffer /\ buffer' = b
  /\ fresh' = FALSE
  /\ UNCHANGED <<command_, payload_, ctor, args, buffer_in, last_out, n_calls>>
  /\ UNCHANGED crcVars

Next == Serialize \/ CallerReusesBuffer

Spec == Init /\ [][Next]_vars

(***************************************************************************)
(* The checksum routine called on its own.                                 *)
(***************************************************************************)
\* Arguments <<data, size>> of a direct call: all short arrays with each
\* prefix length, every one-byte array (so that every table index is
\* looked up), and the six header bytes of the frame of command 0x25 with
\* no payload.
CrcInputs ==
     {in \in {<<d, s>> : d \in SeqsUpTo(MaxCrcLen), s \in 0..MaxCrcLen} : in[2] <= Len(in[1])}
  \cup {<<<<b>>, 1>> : b \in 0..255}
  \cup {<<<<\haa, \haa, \haa, \h25, \h00, \h00>>, 6>>}

\* No encoder call is made in a run of the checksum routine alone.
EncoderIdle ==
  /\ args = [command |-> \h25, payload |-> <<>>, size |-> 0]
  /\ ctor = "ok"
  /\ command_ = \h25
  /\ payload_ = <<>>
  /\ buffer = <<>>
  /\ buffer_in = <<>>
  /\ last_out = <<>>
  /\ n_calls = 0
  /\ fresh = FALSE

InitCrc ==
  /\ EncoderIdle
  /\ \E in \in CrcInputs : crc_data = in[1] /\ crc_size = in[2]
  /\ crc_ret = 0
  /\ crc_done = FALSE

\* uint16_t r = checksum_update_crc16(crc_data, crc_size);
ChecksumCall ==
  /\ ~crc_done
  /\ crc_ret' = checksum_update_crc16(crc_data, crc_size)
  /\ crc_done' = TRUE
  /\ UNCHANGED <<crc_data, crc_size>>
  /\ UNCHANGED encoderVars

NextCrc == ChecksumCall

SpecCrc == InitCrc /\ [][NextCrc]_vars

(***************************************************************************)
(* Properties.                                                             *)
(***************************************************************************)
\* C1: after Serialize on a payload of n bytes, buffer[n+6] and buffer[n+7]
\* are the low byte and then the high byte of checksum_update_crc16 over
\* exactly the n + 6 bytes buffer[0 .. n+5]; the two checksum bytes are not
\* in the checksummed range.
ChecksumTrailer ==
  fresh =>
    LET n == Len(payload_)
    IN  /\ Len(buffer) >= n + 8
        /\ \E crc \in {checksum_update_crc16(SubSeq(buffer, 1, n + 6), n + 6)} :
              /\ buffer[n + 7] = crc % 256
              /\ buffer[n + 8] = crc \div 256

\* A frame with a payload whose two checksum bytes differ (their order shows).
ChecksumTrailerWitness ==
  /\ fresh
  /\ Len(payload_) > 0
  /\ buffer[Len(payload_) + 7] # buffer[Len(payload_) + 8]

\* C2: for every payload length n in 0..65535, buffer[4] = n & 0xFF and
\* buffer[5] = (n >> 8) & 0xFF, so the length field decoded low byte first
\* is the number of payload bytes.
LengthFieldAllLengths ==
  (fresh /\ Len(payload_) <= 65535) =>
    /\ buffer[5] = Len(payload_) % 256
    /\ buffer[6] = (Len(payload_) \div 256) % 256
    /\ buffer[5] + 256 * buffer[6] = Len(payload_)

\* C3: construction with a size of 65536 or more fails with InvalidArgument,
\* so no instance with such a payload exists.
OversizePayloadRejected ==
  /\ args.size >= 65536 => ctor = "InvalidArgument"
  /\ ~(ctor = "ok" /\ Len(payload_) >= 65536)

\* C4: construction with a command code outside 0..255 fails with
\* InvalidArgument; no instance exists whose Serialize truncates the code.
CommandRangeRejected ==
  args.command \notin 0..255 => ctor = "InvalidArgument"

\* C5: for every payload length n in 0..255, bytes 4 and 5 of the frame,
\* decoded low byte first, are n.
LengthFieldShortPayload ==
  (fresh /\ Len(payload_) <= 255) =>
    buffer[5] + 256 * buffer[6] = Len(payload_)

\* A frame of the longest payload whose length fits one byte.
LengthFieldShortWitness ==
  /\ fresh
  /\ Len(payload_) = 255
  /\ buffer[5] = 255

\* C6: Serialize leaves the buffer with exactly len(payload) + 8 bytes,
\* whatever length and contents it had before the call.
FrameLength ==
  fresh => Len(buffer) = Len(payload_) + 8

\* A call that found the buffer longer than the frame and non-zero.
FrameLengthWitness ==
  /\ fresh
  /\ Len(buffer_in) > Len(payload_) + 8
  /\ buffer_in[1] # 0

\* C7: the bytes given to the constructor are at offsets 6 .. 6+n-1 of the
\* frame, verbatim and in order.
PayloadVerbatim ==
  fresh =>
    /\ Len(payload_) = args.size
    /\ \A i \in 1..args.size : buffer[6 + i] = args.payload[i]

\* A frame of a payload whose first two bytes differ, taken from an array
\* longer than the size passed.
PayloadVerbatimWitness ==
  /\ fresh
  /\ args.size >= 2
  /\ args.payload[1] # args.payload[2]
  /\ Len(args.payload) > args.size

\* C8: a Serialize call leaves command_ and payload_ as they were, and
\* writes the bytes the previous call on the instance wrote.
SerializeIdempotent ==
  [][n_calls' = n_calls + 1 =>
       /\ command_' = command_
       /\ payload_' = payload_
       /\ (n_calls >= 1 => buffer' = last_out)]_vars

\* A second call, made on a buffer that no longer held the first frame.
SerializeIdempotentWitness ==
  /\ fresh
  /\ n_calls >= 2
  /\ buffer_in # last_out
  /\ Len(buffer_in) > 0

\* The accumulator of the specification: 0xFFFF on no bytes, and after each
\* further byte TABLE[(acc XOR byte) & 0xFF] XOR (acc >> 8).
RECURSIVE CrcFold(_)
CrcFold(s) ==
  IF Len(s) = 0 THEN \hFFFF
  ELSE Then(CrcFold(SubSeq(s, 1, Len(s) - 1)),
            LAMBDA acc : XOR(CRC_TABLE[(XOR(acc, s[Len(s)]) % 256) + 1], acc \div 256))

\* C9: checksum_update_crc16 returns the accumulator started at 0xFFFF and
\* updated per byte, in order, by acc = CRC_TABLE[(acc XOR byte) & 0xFF]
\* XOR (acc >> 8), with no final XOR; 0xFFFF on zero-length input; always
\* within 0..0xFFFF.
ChecksumIsTableFold ==
  crc_done =>
    /\ crc_ret = CrcFold(SubSeq(crc_data, 1, crc_size))
    /\ crc_ret \in 0..65535
    /\ (crc_size = 0 => crc_ret = \hFFFF)

\* A call on at least two bytes that differ.
ChecksumIsTableFoldWitness ==
  /\ crc_done
  /\ crc_size >= 2
  /\ crc_data[1] # crc_data[2]

\* One step of the bitwise CRC with polynomial 0x1021: shift left by one
\* bit mod 2^16, then XOR with 0x1021 if the bit shifted out was 1.
ShiftStep(v) ==
  IF v >= 32768 THEN XOR((2 * v) % 65536, \h1021) ELSE (2 * v) % 65536

\* Eight steps from (i << 8) mod 2^16.
TableEntry(i) ==
  ShiftStep(ShiftStep(ShiftStep(ShiftStep(
  ShiftStep(ShiftStep(ShiftStep(ShiftStep((i * 256) % 65536))))))))

\* C10: CRC_TABLE has exactly 256 entries, and entry i is the bitwise value
\* for polynomial 0x1021 computed from i: the table every returned checksum
\* was looked up in.
TableIsCcitt1021 ==
  crc_done =>
    /\ Len(CRC_TABLE) = 256
    /\ \A i \in 0..255 : CRC_TABLE[i + 1] = TableEntry(i)

\* A call on the single byte 0x00, which looks up the last table entry.
TableIsCcitt1021Witness ==
  /\ crc_done
  /\ crc_size = 1
  /\ crc_data[1] = 0
  /\ crc_ret = XOR(TableEntry(255), \hFF)

====
